---- MODULE Spec2Model ----
(***************************************************************************)
(* Model of nba-highlights/highlight-fetcher: src/scraper.py (DataESPN)    *)
(* and src/server.py (the Flask highlight fetcher).                        *)
(*                                                                         *)
(* Python strings are modelled as sequences of one-character strings, so   *)
(* that split, substring tests, int() and re.search are computed and not   *)
(* assumed.                                                                *)
(***************************************************************************)
EXTENDS Integers, Sequences, FiniteSets, TLC

VARIABLES
    clockArgs,   \* arguments of one clock conversion call: [period, minutes, seconds]
    clockSecs,   \* what the conversion returned: [fn, val]
    clockRow,    \* one play row handed to the clock parsing step: [period, clock]
    clockOut,    \* what the parsing step did with it: [fn, kind, val]
    prog,        \* the program that is running: "scraper" or "server"
    plays,       \* the play rows of one game converted so far, in order: [period, clock, out]
    schedCells,  \* one row of a team's schedule page: [venue, result] cell texts
    schedRow,    \* what the schedule code made of it
    espnPage,    \* the team links of the source-A teams page, in page order
    brefPage,    \* the team links of the source-B standings page, in page order
    teamsFile,   \* data_dir/teams.parquet: None or a table
    brefFile,    \* data_dir/bref_teams.parquet: None or a table
    teamsRet,    \* outcome of the last teams call: [op, kind, df]
    season,      \* the season the schedule pages show: [results, fault]
    scheduleFile,\* data_dir/schedule.parquet: absent or a table
    schedRet,    \* outcome of the last schedule call: [op, kind, df]
    attrText,    \* the text of one play
    attrNames,   \* the candidate player names, in the set's iteration order
    attrOut,     \* what the attribution made of them
    gameBlob,    \* the nested play groups the site holds for the game
    pageFault,   \* how the game page departs from the usual one, or "none"
    playersFile, \* data_dir/players.pkl: absent or the roster rows
    pbpRet,      \* outcome of the last get_playbyplay_df call: [kind, df]
    response,    \* what the server answered last: [status, kind, df]
    dynamoTable, \* the items put to the nba-play-by-play table, in order
    events       \* the events put to the event bus, in order

vars == <<clockArgs, clockSecs, clockRow, clockOut, prog, plays, schedCells, schedRow,
          espnPage, brefPage, teamsFile, brefFile, teamsRet,
          season, scheduleFile, schedRet, attrText, attrNames, attrOut,
          gameBlob, pageFault, playersFile, pbpRet, response, dynamoTable, events>>

clockVars == <<clockArgs, clockSecs>>
parseVars == <<clockRow, clockOut>>
playVars  == <<prog, plays>>
scoreVars == <<schedCells, schedRow>>
teamVars  == <<espnPage, brefPage, teamsFile, brefFile, teamsRet>>
schedVars == <<season, scheduleFile, schedRet>>
attrVars  == <<attrText, attrNames, attrOut>>
pipeVars  == <<gameBlob, pageFault, playersFile, pbpRet, response, dynamoTable, events>>

None == "None"

------------------------------------------------------------------------------
(* Python str and int helpers                                              *)

Digits == {"0", "1", "2", "3", "4", "5", "6", "7", "8", "9"}

DigitVal(c) ==
    CASE c = "0" -> 0 [] c = "1" -> 1 [] c = "2" -> 2 [] c = "3" -> 3
      [] c = "4" -> 4 [] c = "5" -> 5 [] c = "6" -> 6 [] c = "7" -> 7
      [] c = "8" -> 8 [] c = "9" -> 9

DigitChar(n) ==
    CASE n = 0 -> "0" [] n = 1 -> "1" [] n = 2 -> "2" [] n = 3 -> "3"
      [] n = 4 -> "4" [] n = 5 -> "5" [] n = 6 -> "6" [] n = 7 -> "7"
      [] n = 8 -> "8" [] n = 9 -> "9"

\* s[from..] (1-based), the Python slice s[from-1:]
Drop(s, from) == SubSeq(s, from, Len(s))

\* str.find: the 1-based index of the first occurrence of sub in s, 0 when absent
Find(s, sub) ==
    LET hits == {i \in 1..(Len(s) - Len(sub) + 1) : SubSeq(s, i, i + Len(sub) - 1) = sub}
    IN  IF hits = {} THEN 0 ELSE CHOOSE i \in hits : \A j \in hits : i <= j

\* the Python test `sub in s`
Contains(s, sub) == Find(s, sub) # 0

\* str.split(sep) for a non-empty separator
RECURSIVE Split(_, _)
Split(s, sep) ==
    LET i == Find(s, sep)
    IN  IF i = 0 THEN <<s>>
        ELSE <<SubSeq(s, 1, i - 1)>> \o Split(Drop(s, i + Len(sep)), sep)

\* value of a digit string, most significant digit first
RECURSIVE DigitsVal(_)
DigitsVal(s) ==
    IF s = <<>> THEN 0 ELSE 10 * DigitsVal(SubSeq(s, 1, Len(s) - 1)) + DigitVal(s[Len(s)])

\* str(n) for n >= 0
RECURSIVE NumStr(_)
NumStr(n) == IF n < 10 THEN <<DigitChar(n)>> ELSE NumStr(n \div 10) \o <<DigitChar(n % 10)>>

IsDigits(s) == Len(s) > 0 /\ \A i \in 1..Len(s) : s[i] \in Digits

\* str.strip() of blanks
RECURSIVE Strip(_)
Strip(s) ==
    IF s = <<>> THEN s
    ELSE IF s[1] = " " THEN Strip(Drop(s, 2))
    ELSE IF s[Len(s)] = " " THEN Strip(SubSeq(s, 1, Len(s) - 1))
    ELSE s

\* int(s): surrounding blanks and one leading sign are accepted, then digits only;
\* anything else raises ValueError (ok = FALSE)
PyInt(s) ==
    LET t == Strip(s)
        signed == t # <<>> /\ t[1] \in {"-", "+"}
        body == IF signed THEN Drop(t, 2) ELSE t
    IN  IF ~IsDigits(body) THEN [ok |-> FALSE, val |-> 0]
        ELSE [ok |-> TRUE,
              val |-> IF signed /\ t[1] = "-" THEN 0 - DigitsVal(body) ELSE DigitsVal(body)]

------------------------------------------------------------------------------
(* ClockConverter                                                          *)

\* a mutation of the conversion: the minutes are counted from 12, not from 11
gameclock2seconds_from12(period, minutes, seconds) ==
    (period - 1) * 12 * 60 + (12 - minutes) * 60 + (60 - seconds)

\* a mutation of the conversion: the seconds are taken as elapsed, not remaining
gameclock2seconds_elapsed(period, minutes, seconds) ==
    (period - 1) * 12 * 60 + (11 - minutes) * 60 + seconds

\* DataESPN.gameclock2seconds
gameclock2seconds(period, minutes, seconds) ==
    (period - 1) * 12 * 60 + (11 - minutes) * 60 + (60 - seconds)

\* server.game_clock_to_seconds
game_clock_to_seconds(period, minutes, seconds) ==
    (period - 1) * 12 * 60 + (11 - minutes) * 60 + (60 - seconds)

Ok(v) == [kind |-> "ok", val |-> v]
Raise(e) == [kind |-> e, val |-> 0]

\* DataESPN.secondsPassed on row = [period, clock]
secondsPassed(row) ==
    LET parts == Split(row.clock, <<":">>)
    IN  IF Contains(row.clock, <<":">>) THEN
            \* minutes, seconds = (int(x) for x in ...): a third part, or a part
            \* int() rejects, raises ValueError
            IF Len(parts) = 2 /\ PyInt(parts[1]).ok /\ PyInt(parts[2]).ok
            THEN Ok(gameclock2seconds(row.period, PyInt(parts[1]).val, PyInt(parts[2]).val))
            ELSE Raise("ValueError")
        ELSE IF Contains(row.clock, <<".">>) THEN
            LET sec == PyInt(Split(row.clock, <<".">>)[1])
            IN  IF sec.ok THEN Ok(gameclock2seconds(row.period, 0, sec.val))
                ELSE Raise("ValueError")
        ELSE \* minutes and seconds were never assigned
            Raise("UnboundLocalError")

\* server.seconds_passed on row = [period, clock]
seconds_passed(row) ==
    LET parts == Split(row.clock, <<":">>)
    IN  IF Len(parts) = 2 THEN
            IF PyInt(parts[1]).ok /\ PyInt(parts[2]).ok
            THEN Ok(game_clock_to_seconds(row.period, PyInt(parts[1]).val, PyInt(parts[2]).val))
            ELSE Raise("ValueError")
        ELSE IF Len(parts) = 1 THEN
            LET sec == PyInt(Split(row.clock, <<".">>)[1])
            IN  IF sec.ok THEN Ok(game_clock_to_seconds(row.period, 0, sec.val))
                ELSE Raise("ValueError")
        ELSE Raise("UnboundLocalError")

------------------------------------------------------------------------------
(* ScheduleDeduplicator: one row of a schedule page                        *)

\* DataESPN.get_schedule, the fields read from the venue and result cells.
\* An empty result cell raises IndexError at text[0].
ScheduleFields(venue, result) ==
    IF result = <<>> THEN Raise("IndexError")
    ELSE [kind |-> "ok",
          is_home |-> Split(venue, <<" ">>)[1] = <<"v", "s">>,
          result |-> result[1],
          scores |-> Split(Split(Strip(Drop(result, 2)), <<" ">>)[1], <<"-">>),
          OT |-> Strip(result) # <<>> /\ Strip(result)[Len(Strip(result))] = "T"]

\* a mutation of home_score: the first number whatever the result
home_score_first(x) == x.scores[1]

\* DataESPN.get_schedule_df, the home_score lambda
home_score(x) == IF x.result = "W" THEN x.scores[1] ELSE x.scores[Len(x.scores)]

\* DataESPN.get_schedule_df, the away_score lambda
away_score(x) == IF x.result = "W" THEN x.scores[Len(x.scores)] ELSE x.scores[1]

------------------------------------------------------------------------------
(* TeamIdentityReconciler: the teams tables and their parquet cache        *)
(* A table is [columns, rows]; team names, tags and codes are atoms.       *)

NaN == "NaN"

\* the team names of the model in Python's string order, which sort_values
\* and the outer merge follow
NameOrder ==
    <<"Atlanta Hawks", "Boston Celtics", "LA Clippers", "Los Angeles Clippers", "Utah Jazz">>

NameRank(n) == CHOOSE i \in 1..Len(NameOrder) : NameOrder[i] = n

\* rows with row placed by ascending name
RECURSIVE InsertByName(_, _)
InsertByName(rows, row) ==
    IF rows = <<>> THEN <<row>>
    ELSE IF NameRank(row.name) < NameRank(rows[1].name) THEN <<row>> \o rows
    ELSE <<rows[1]>> \o InsertByName(Tail(rows), row)

\* df.sort_values('name').reset_index(drop=True)
RECURSIVE SortByName(_)
SortByName(rows) ==
    IF rows = <<>> THEN <<>>
    ELSE InsertByName(SortByName(SubSeq(rows, 1, Len(rows) - 1)), rows[Len(rows)])

RECURSIVE FlattenSeq(_)
FlattenSeq(ss) == IF ss = <<>> THEN <<>> ELSE ss[1] \o FlattenSeq(Tail(ss))

EspnColumns == {"name", "tag", "code", "url"}
BrefColumns == {"name", "bref_url", "bref_code"}

\* get_teams_df lines 48-58: one row per team link of the page
EspnTeamsTable(page) ==
    [columns |-> EspnColumns,
     rows |-> [i \in 1..Len(page) |->
                  [name |-> page[i].name, tag |-> page[i].tag, code |-> page[i].code,
                   url |-> page[i].url]]]

\* get_bref_teams_df lines 77-86: one row per team link, sorted by name
BrefTeamsTable(page) ==
    [columns |-> BrefColumns,
     rows |-> SortByName([i \in 1..Len(page) |->
                  [name |-> page[i].name, bref_url |-> page[i].bref_url,
                   bref_code |-> page[i].bref_code]])]

\* teams_df.merge(bref_teams_df, on='name', how='outer'): the union of the
\* names in sorted order, each with every pairing of its left and right rows
MergeOuter(left, right) ==
    LET names == {left[i].name : i \in 1..Len(left)} \cup {right[i].name : i \in 1..Len(right)}
        keys == SortByName(
                    LET key[S \in SUBSET names] ==
                            IF S = {} THEN <<>>
                            ELSE LET n == CHOOSE n \in S : TRUE
                                 IN  <<[name |-> n]>> \o key[S \ {n}]
                    IN  key[names])
        \* l and r are <<>> (no row on that side) or <<row>>
        Joined(l, r) ==
            [name |-> IF l = <<>> THEN r[1].name ELSE l[1].name,
             tag |-> IF l = <<>> THEN NaN ELSE l[1].tag,
             code |-> IF l = <<>> THEN NaN ELSE l[1].code,
             url |-> IF l = <<>> THEN NaN ELSE l[1].url,
             bref_url |-> IF r = <<>> THEN NaN ELSE r[1].bref_url,
             bref_code |-> IF r = <<>> THEN NaN ELSE r[1].bref_code]
        ForKey(k) ==
            LET L == SelectSeq(left, LAMBDA x : x.name = k)
                R == SelectSeq(right, LAMBDA x : x.name = k)
            IN  IF L = <<>> THEN [j \in 1..Len(R) |-> Joined(<<>>, <<R[j]>>)]
                ELSE IF R = <<>> THEN [i \in 1..Len(L) |-> Joined(<<L[i]>>, <<>>)]
                ELSE FlattenSeq([i \in 1..Len(L) |->
                                    [j \in 1..Len(R) |-> Joined(<<L[i]>>, <<R[j]>>)]])
    IN  FlattenSeq([i \in 1..Len(keys) |-> ForKey(keys[i].name)])

\* fix_teams_df line 101: the source-A name of the franchise becomes the canonical one
RenameClippers(rows) ==
    [i \in 1..Len(rows) |->
        IF rows[i].name = "LA Clippers"
        THEN [rows[i] EXCEPT !.name = "Los Angeles Clippers"] ELSE rows[i]]

\* fix_teams_df line 102: the tag is set where the name is still 'LA Clippers'
RetagClippers(rows) ==
    [i \in 1..Len(rows) |->
        IF rows[i].name = "LA Clippers"
        THEN [rows[i] EXCEPT !.tag = "los-angeles-clippers"] ELSE rows[i]]

\* fix_teams_df lines 100-103
Reconcile(teams_df, bref_teams_df) ==
    [columns |-> EspnColumns \cup BrefColumns,
     rows |-> MergeOuter(RetagClippers(RenameClippers(SortByName(teams_df.rows))),
                         bref_teams_df.rows)]

\* A cache file is <<>> when absent and <<table>> when present; so is the
\* table a call returns.  The three operations work on the cache
\* fs = [teams, bref]; net = [espn, bref] says which fetches succeed.
\* Each yields [fs, kind, df].
NoFile == <<>>
Returned(fs, df) == [fs |-> fs, kind |-> "ok", df |-> df]
Failed(fs, e) == [fs |-> fs, kind |-> e, df |-> <<>>]

\* get_bref_teams_df
get_bref_teams_df(fs, net) ==
    IF fs.bref # NoFile THEN Returned(fs, fs.bref)
    ELSE IF ~net.bref THEN Failed(fs, "ConnectionError")
    ELSE Returned([fs EXCEPT !.bref = <<BrefTeamsTable(brefPage)>>],
                  <<BrefTeamsTable(brefPage)>>)

\* fix_teams_df from line 95 on, teams_df being the table get_teams_df returned
FixLoaded(fs, net, teams_df) ==
    IF "bref_code" \in teams_df.columns THEN Returned(fs, <<>>)
    ELSE LET b == get_bref_teams_df(fs, net)
         IN  IF b.kind # "ok" THEN Failed(b.fs, b.kind)
             ELSE Returned([b.fs EXCEPT !.teams = <<Reconcile(teams_df, b.df[1])>>], <<>>)

\* get_teams_df; its call of fix_teams_df finds the file just written
get_teams_df(fs, net) ==
    IF fs.teams # NoFile THEN Returned(fs, fs.teams)
    ELSE IF ~net.espn THEN Failed(fs, "ConnectionError")
    ELSE LET saved == [fs EXCEPT !.teams = <<EspnTeamsTable(espnPage)>>]
             fixed == FixLoaded(saved, net, saved.teams[1])
         IN  IF fixed.kind # "ok" THEN Failed(fixed.fs, fixed.kind)
             ELSE Returned(fixed.fs, fixed.fs.teams)

\* fix_teams_df
fix_teams_df(fs, net) ==
    LET got == get_teams_df(fs, net)
    IN  IF got.kind # "ok" THEN Failed(got.fs, got.kind)
        ELSE FixLoaded(got.fs, net, got.df[1])

------------------------------------------------------------------------------
(* PlayerAttributor                                                        *)
(* Names and texts are made of letters, blanks and '.', the one regular    *)
(* expression metacharacter among them.                                    *)

\* re.search(pattern, text) can match at 1-based position i: '.' matches any
\* character, every other character of the model matches itself
MatchesAt(pattern, text, i) ==
    /\ i + Len(pattern) - 1 <= Len(text)
    /\ \A k \in 1..Len(pattern) : pattern[k] = "." \/ pattern[k] = text[i + k - 1]

\* re.search(pattern, text).start(), 0-based; -1 stands for no match (None)
SearchStart(pattern, text) ==
    LET hits == {i \in 1..(Len(text) + 1) : MatchesAt(pattern, text, i)}
    IN  IF hits = {} THEN 0 - 1 ELSE (CHOOSE i \in hits : \A j \in hits : i <= j) - 1

\* add_player_names line 251, the sort key of a kept name
SortKey(name, text) == SearchStart(name, text)

\* sorted(pairs, key=lambda x: x[1]): stable, ascending by key
RECURSIVE InsertByKey(_, _)
InsertByKey(pairs, pair) ==
    IF pairs = <<>> THEN <<pair>>
    ELSE IF pair[2] < pairs[1][2] THEN <<pair>> \o pairs
    ELSE <<pairs[1]>> \o InsertByKey(Tail(pairs), pair)

RECURSIVE SortedByKey(_)
SortedByKey(pairs) ==
    IF pairs = <<>> THEN <<>>
    ELSE InsertByKey(SortedByKey(SubSeq(pairs, 1, Len(pairs) - 1)), pairs[Len(pairs)])

\* add_player_names lines 247-251 on one text; player_set is the candidate
\* set as a sequence in its iteration order
playerNames(text, player_set) ==
    LET names == SelectSeq(player_set, LAMBDA name : Contains(text, name))
        pairs == [i \in 1..Len(names) |-> <<names[i], SortKey(names[i], text)>>]
        sorted == SortedByKey(pairs)
    IN  IF \E i \in 1..Len(names) : pairs[i][2] < 0
        THEN Raise("AttributeError")   \* re.search returned None
        ELSE Ok([i \in 1..Len(sorted) |-> sorted[i][1]])

------------------------------------------------------------------------------
(* EmbeddedBlobExtractor: json.loads on the subset of JSON the pages use   *)
(* (lists, objects, strings without escapes, unsigned integers, true,      *)
(* false, null, blanks between tokens).  A parsed value is [t, v] with t   *)
(* in list, dict, str, int, bool, null; a dict's v is its sequence of      *)
(* [k, v] members.                                                         *)

Quote == "\""

JList(v) == [t |-> "list", v |-> v]
JDict(v) == [t |-> "dict", v |-> v]
JStr(v) == [t |-> "str", v |-> v]
JInt(v) == [t |-> "int", v |-> v]
JBool(v) == [t |-> "bool", v |-> v]
JNull == [t |-> "null", v |-> 0]

Parsed(val, next) == [ok |-> TRUE, val |-> val, next |-> next]
ParseFail == [ok |-> FALSE, val |-> JNull, next |-> 0]

\* the first position from i on that holds no blank
RECURSIVE SkipBlanks(_, _)
SkipBlanks(s, i) == IF i <= Len(s) /\ s[i] = " " THEN SkipBlanks(s, i + 1) ELSE i

\* the first position from i on that holds no digit
RECURSIVE SkipDigits(_, _)
SkipDigits(s, i) == IF i <= Len(s) /\ s[i] \in Digits THEN SkipDigits(s, i + 1) ELSE i

\* the position of the first quote from i on, 0 when there is none
RECURSIVE FindQuote(_, _)
FindQuote(s, i) ==
    IF i > Len(s) THEN 0 ELSE IF s[i] = Quote THEN i ELSE FindQuote(s, i + 1)

\* s holds word at position i
HasWord(s, i, word) ==
    i + Len(word) - 1 <= Len(s) /\ SubSeq(s, i, i + Len(word) - 1) = word

\* a string whose opening quote is at position i
ParseString(s, i) ==
    LET close == FindQuote(s, i + 1)
    IN  IF close = 0 THEN ParseFail ELSE Parsed(JStr(SubSeq(s, i + 1, close - 1)), close + 1)

RECURSIVE ParseValue(_, _), ParseItems(_, _, _), ParseMembers(_, _, _)

\* the value that starts at or after position i
ParseValue(s, i) ==
    LET j == SkipBlanks(s, i)
    IN  IF j > Len(s) THEN ParseFail
        ELSE IF s[j] = "[" THEN
            IF SkipBlanks(s, j + 1) <= Len(s) /\ s[SkipBlanks(s, j + 1)] = "]"
            THEN Parsed(JList(<<>>), SkipBlanks(s, j + 1) + 1)
            ELSE ParseItems(s, j + 1, <<>>)
        ELSE IF s[j] = "{" THEN
            IF SkipBlanks(s, j + 1) <= Len(s) /\ s[SkipBlanks(s, j + 1)] = "}"
            THEN Parsed(JDict(<<>>), SkipBlanks(s, j + 1) + 1)
            ELSE ParseMembers(s, j + 1, <<>>)
        ELSE IF s[j] = Quote THEN ParseString(s, j)
        ELSE IF s[j] = "0" THEN Parsed(JInt(0), j + 1)   \* no digit may follow a leading 0
        ELSE IF s[j] \in Digits THEN
            Parsed(JInt(DigitsVal(SubSeq(s, j, SkipDigits(s, j) - 1))), SkipDigits(s, j))
        ELSE IF HasWord(s, j, <<"t", "r", "u", "e">>) THEN Parsed(JBool(TRUE), j + 4)
        ELSE IF HasWord(s, j, <<"f", "a", "l", "s", "e">>) THEN Parsed(JBool(FALSE), j + 5)
        ELSE IF HasWord(s, j, <<"n", "u", "l", "l">>) THEN Parsed(JNull, j + 4)
        ELSE ParseFail

\* the items of a list from position i on, after the items in acc; the
\* item parsed at i is bound once
ParseItems(s, i, acc) ==
    CHOOSE r \in
        {LET j == SkipBlanks(s, item.next)
         IN  IF ~item.ok \/ j > Len(s) THEN ParseFail
             ELSE IF s[j] = "," THEN ParseItems(s, j + 1, Append(acc, item.val))
             ELSE IF s[j] = "]" THEN Parsed(JList(Append(acc, item.val)), j + 1)
             ELSE ParseFail : item \in {ParseValue(s, i)}} : TRUE

\* the members of an object from position i on, after the members in acc;
\* the key and the value parsed are bound once
ParseMembers(s, i, acc) ==
    CHOOSE r \in
        {LET j == SkipBlanks(s, kv[2].next)
             member == [k |-> kv[1].val.v, v |-> kv[2].val]
         IN  IF ~kv[2].ok \/ j > Len(s) THEN ParseFail
             ELSE IF s[j] = "," THEN ParseMembers(s, j + 1, Append(acc, member))
             ELSE IF s[j] = "}" THEN Parsed(JDict(Append(acc, member)), j + 1)
             ELSE ParseFail :
         kv \in {LET k == SkipBlanks(s, i)
                     key == IF k <= Len(s) /\ s[k] = Quote THEN ParseString(s, k) ELSE ParseFail
                     colon == SkipBlanks(s, key.next)
                 IN  <<key, IF key.ok /\ colon <= Len(s) /\ s[colon] = ":"
                            THEN ParseValue(s, colon + 1) ELSE ParseFail>>}} : TRUE

\* json.loads(s): one value and nothing but blanks after it, else JSONDecodeError
json_loads(s) ==
    CHOOSE r \in
        {IF v.ok /\ SkipBlanks(s, v.next) > Len(s) THEN [kind |-> "ok", val |-> v.val]
         ELSE [kind |-> "JSONDecodeError", val |-> JNull] : v \in {ParseValue(s, 1)}} : TRUE

Anchor == <<"p", "l", "a", "y", "G", "r", "p", "s">>
Closing == <<"}", "]", "]", ",">>

\* get_playbyplay_df lines 266-267 and _fetch_highlights lines 136-137:
\* text.split('playGrps')[1].split('}]],')[0] + '}]]', parsed from its third
\* character on
ExtractBlob(text) ==
    LET after == Split(text, Anchor)
    IN  IF Len(after) < 2 THEN [kind |-> "IndexError", val |-> JNull]
        ELSE json_loads(Drop(Split(after[2], Closing)[1] \o <<"}", "]", "]">>, 3))

------------------------------------------------------------------------------
(* PlayRecordNormalizer: the play-by-play frame of one game                *)

\* a mutation of the flattening: the first entry of every group is lost
RECURSIVE FlattenTails(_)
FlattenTails(groups) ==
    IF groups = <<>> THEN <<>>
    ELSE (IF groups[1].v = <<>> THEN <<>> ELSE Tail(groups[1].v)) \o FlattenTails(Tail(groups))

\* [item for sublist in data for item in sublist], data a list of lists
RECURSIVE FlattenGroups(_)
FlattenGroups(groups) ==
    IF groups = <<>> THEN <<>> ELSE groups[1].v \o FlattenGroups(Tail(groups))

\* the pages' blobs are lists whose members are lists; anything else is
\* taken to raise TypeError
FlattenData(data) ==
    IF data.t = "list" /\ \A g \in 1..Len(data.v) : data.v[g].t = "list"
    THEN Ok(FlattenGroups(data.v)) ELSE Raise("TypeError")

\* item[key] of a parsed object: <<>> when the key is missing, else <<value>>
Lookup(item, key) ==
    IF item.t # "dict" THEN <<>>
    ELSE LET at == {m \in 1..Len(item.v) : item.v[m].k = key}
         IN  IF at = {} THEN <<>> ELSE <<item.v[CHOOSE m \in at : \A n \in at : m >= n].v>>

\* the frame has the column: some item carries the key
HasColumn(items, key) == \E i \in 1..Len(items) : Lookup(items[i], key) # <<>>

\* a cell is missing (NaN) or null (None)
IsNa(cell) == cell = <<>> \/ cell[1].t = "null"

\* x[key] for the cell of an object column: the wrapped value, or the error
\* subscripting raises
Unwrap(cell, key) ==
    IF cell = <<>> \/ cell[1].t # "dict" THEN Raise("TypeError")
    ELSE IF Lookup(cell[1], key) = <<>> THEN Raise("KeyError")
    ELSE [kind |-> "ok", val |-> Lookup(cell[1], key)[1]]

\* str(v) of a string or an integer, the values the pages' cells hold
PyStr(v) == IF v.t = "str" THEN v.v ELSE NumStr(v.v)

\* astype(int) of an id cell
IdAsInt(cell) ==
    IF IsNa(cell) THEN [ok |-> FALSE, val |-> 0]
    ELSE IF cell[1].t = "int" THEN [ok |-> TRUE, val |-> cell[1].v]
    ELSE IF cell[1].t = "str" THEN PyInt(cell[1].v)
    ELSE [ok |-> FALSE, val |-> 0]

\* astype(str) of an id cell
IdAsStr(cell) ==
    IF cell = <<>> THEN <<"n", "a", "n">>
    ELSE IF cell[1].t = "null" THEN <<"N", "o", "n", "e">>
    ELSE PyStr(cell[1])

FreeThrow == <<"f", "r", "e", "e", " ", "t", "h", "r", "o", "w">>
Neutral == <<"n", "e", "u", "t", "r", "a", "l">>

KeyId == <<"i", "d">>
KeyPeriod == <<"p", "e", "r", "i", "o", "d">>
KeyNumber == <<"n", "u", "m", "b", "e", "r">>
KeyText == <<"t", "e", "x", "t">>
KeyHomeAway == <<"h", "o", "m", "e", "A", "w", "a", "y">>
KeyClock == <<"c", "l", "o", "c", "k">>
KeyDisplayValue == <<"d", "i", "s", "p", "l", "a", "y", "V", "a", "l", "u", "e">>
KeyScoringPlay == <<"s", "c", "o", "r", "i", "n", "g", "P", "l", "a", "y">>

\* the columns both programs coerce, lines 274-278 and 141-145, for one item
CoercedRow(item) ==
    [period |-> Unwrap(Lookup(item, KeyPeriod), KeyNumber).val.v,
     text |-> IF IsNa(Lookup(item, KeyText)) THEN <<>> ELSE PyStr(Lookup(item, KeyText)[1]),
     homeAway |-> IF IsNa(Lookup(item, KeyHomeAway)) THEN Neutral
                  ELSE Lookup(item, KeyHomeAway)[1].v,
     clock |-> PyStr(Unwrap(Lookup(item, KeyClock), KeyDisplayValue).val),
     scoringPlay |-> IF IsNa(Lookup(item, KeyScoringPlay)) THEN FALSE
                     ELSE Lookup(item, KeyScoringPlay)[1].v]

\* the exception the column coercions raise on the items, None when none
\* does; idOk[i] says whether the id of item i can be cast
CoercionError(items, idOk) ==
    IF ~HasColumn(items, KeyId) THEN "KeyError"
    ELSE IF \E i \in 1..Len(items) : ~idOk[i] THEN "ValueError"
    ELSE IF ~HasColumn(items, KeyPeriod) THEN "KeyError"
    ELSE IF \E i \in 1..Len(items) :
                Unwrap(Lookup(items[i], KeyPeriod), KeyNumber).kind # "ok"
         THEN "TypeError"
    ELSE IF ~HasColumn(items, KeyText) \/ ~HasColumn(items, KeyHomeAway)
            \/ ~HasColumn(items, KeyClock)
         THEN "KeyError"
    ELSE IF \E i \in 1..Len(items) :
                Unwrap(Lookup(items[i], KeyClock), KeyDisplayValue).kind # "ok"
         THEN "TypeError"
    ELSE IF ~HasColumn(items, KeyScoringPlay) THEN "KeyError"
    ELSE None

\* get_playbyplay_df lines 270-280: the frame before the player names
NormalizeScraper(items) ==
    LET err == CoercionError(items, [i \in 1..Len(items) |-> IdAsInt(Lookup(items[i], KeyId)).ok])
        rows == [i \in 1..Len(items) |->
                    [id |-> IdAsInt(Lookup(items[i], KeyId)).val] @@ CoercedRow(items[i])]
        secs == [i \in 1..Len(items) |-> secondsPassed(rows[i])]
    IN  IF err # None THEN Raise(err)
        ELSE IF \E i \in 1..Len(items) : secs[i].kind # "ok"
        THEN Raise(secs[CHOOSE i \in 1..Len(items) :
                          /\ secs[i].kind # "ok"
                          /\ \A j \in 1..(i - 1) : secs[j].kind = "ok"].kind)
        ELSE Ok([i \in 1..Len(items) |->
                    rows[i] @@ [secondsPassed |-> secs[i].val,
                                FT |-> Contains(rows[i].text, FreeThrow)]])

\* _fetch_highlights lines 139-146: the frame the server returns
NormalizeServer(items) ==
    LET err == CoercionError(items, [i \in 1..Len(items) |-> TRUE])
        rows == [i \in 1..Len(items) |->
                    [id |-> IdAsStr(Lookup(items[i], KeyId))] @@ CoercedRow(items[i])]
        secs == [i \in 1..Len(items) |-> seconds_passed(rows[i])]
    IN  IF err # None THEN Raise(err)
        ELSE IF \E i \in 1..Len(items) : secs[i].kind # "ok"
        THEN Raise(secs[CHOOSE i \in 1..Len(items) :
                          /\ secs[i].kind # "ok"
                          /\ \A j \in 1..(i - 1) : secs[j].kind = "ok"].kind)
        ELSE Ok([i \in 1..Len(items) |-> rows[i] @@ [secondsPassed |-> secs[i].val]])

\* soup.find_all('script')[-5].text, then the extraction and the flattening
PageItems(scripts) ==
    IF Len(scripts) < 5 THEN Raise("IndexError")
    ELSE CHOOSE r \in
            {IF data.kind # "ok" THEN Raise(data.kind) ELSE FlattenData(data.val) :
             data \in {ExtractBlob(scripts[Len(scripts) - 4])}} : TRUE

------------------------------------------------------------------------------
(* Bounds                                                                  *)

MaxPeriod == 4      \* periods of the conversion calls
MaxClockLen == 4    \* length of the clock strings handed to the parsing step
MaxPlays == 2       \* plays of one game whose clocks are converted
MaxPlayPeriod == 2  \* periods of those plays
MaxNameLen == 2     \* length of a candidate player name
MaxNames == 2       \* candidate player names
MaxTextLen == 4     \* length of a play text
NumTeams == 3       \* teams of the league
MaxEntries == 2     \* entries of the play blob, over all its groups

------------------------------------------------------------------------------
(* Components that take no part in a specification stay idle               *)

ClockIdle == clockArgs = None /\ clockSecs = None
ParseIdle == clockRow = None /\ clockOut = None
PlaysIdle == prog = None /\ plays = <<>>
ScoreIdle == schedCells = None /\ schedRow = None
TeamsIdle ==
    /\ espnPage = <<>> /\ brefPage = <<>>
    /\ teamsFile = <<>> /\ brefFile = <<>> /\ teamsRet = None
SchedIdle == season = None /\ scheduleFile = <<>> /\ schedRet = None
AttrIdle == attrText = <<>> /\ attrNames = <<>> /\ attrOut = None
PipeIdle ==
    /\ gameBlob = None /\ pageFault = None /\ playersFile = <<>>
    /\ pbpRet = None /\ response = None /\ dynamoTable = <<>> /\ events = <<>>

\* every component outside S is idle
Idle(S) ==
    /\ IF "clock" \in S THEN TRUE ELSE ClockIdle
    /\ IF "parse" \in S THEN TRUE ELSE ParseIdle
    /\ IF "plays" \in S THEN TRUE ELSE PlaysIdle
    /\ IF "score" \in S THEN TRUE ELSE ScoreIdle
    /\ IF "teams" \in S THEN TRUE ELSE TeamsIdle
    /\ IF "sched" \in S THEN TRUE ELSE SchedIdle
    /\ IF "attr" \in S THEN TRUE ELSE AttrIdle
    /\ IF "pipe" \in S THEN TRUE ELSE PipeIdle

\* every component outside S is left alone
Frame(S) ==
    /\ IF "clock" \in S THEN TRUE ELSE UNCHANGED clockVars
    /\ IF "parse" \in S THEN TRUE ELSE UNCHANGED parseVars
    /\ IF "plays" \in S THEN TRUE ELSE UNCHANGED playVars
    /\ IF "score" \in S THEN TRUE ELSE UNCHANGED scoreVars
    /\ IF "teams" \in S THEN TRUE ELSE UNCHANGED teamVars
    /\ IF "sched" \in S THEN TRUE ELSE UNCHANGED schedVars
    /\ IF "attr" \in S THEN TRUE ELSE UNCHANGED attrVars
    /\ IF "pipe" \in S THEN TRUE ELSE UNCHANGED pipeVars

------------------------------------------------------------------------------
(* SpecClock: the clock conversion on every argument of its contract       *)

ClockInit ==
    /\ clockArgs \in [period : 1..MaxPeriod, minutes : 0..11, seconds : 0..59]
    /\ clockSecs = [fn |-> None, val |-> 0]

Gameclock2seconds ==
    /\ clockSecs.fn = None
    /\ clockSecs' = [fn |-> "gameclock2seconds",
                     val |-> gameclock2seconds(clockArgs.period, clockArgs.minutes,
                                               clockArgs.seconds)]
    /\ UNCHANGED clockArgs /\ Frame({"clock"})

GameClockToSeconds ==
    /\ clockSecs.fn = None
    /\ clockSecs' = [fn |-> "game_clock_to_seconds",
                     val |-> game_clock_to_seconds(clockArgs.period, clockArgs.minutes,
                                                   clockArgs.seconds)]
    /\ UNCHANGED clockArgs /\ Frame({"clock"})

InitClock == ClockInit /\ Idle({"clock"})
NextClock == Gameclock2seconds \/ GameClockToSeconds
SpecClock == InitClock /\ [][NextClock]_vars

\* the conversion named by fn, for stating properties of its neighbours
ClockFn(fn, p, m, s) ==
    IF fn = "gameclock2seconds" THEN gameclock2seconds(p, m, s)
    ELSE game_clock_to_seconds(p, m, s)

\* C1: for period >= 1, minutes in 0..11 and seconds in 0..59 either conversion
\* returns (period-1)*720 + (11-minutes)*60 + (60-seconds); the result grows
\* strictly with the period and shrinks strictly as minutes or seconds remaining
\* grow; period 1 at 11:59 is 1, period 1 at 0:00 is 720, period 2 at 11:59 is 721.
ClockFormulaHolds ==
    clockSecs.fn # None =>
        LET p == clockArgs.period
            m == clockArgs.minutes
            s == clockArgs.seconds
            f == clockSecs.fn
        IN  /\ clockSecs.val = (p - 1) * 720 + (11 - m) * 60 + (60 - s)
            /\ ClockFn(f, p + 1, m, s) > clockSecs.val
            /\ m < 11 => ClockFn(f, p, m + 1, s) < clockSecs.val
            /\ s < 59 => ClockFn(f, p, m, s + 1) < clockSecs.val
            /\ (p = 1 /\ m = 11 /\ s = 59) => clockSecs.val = 1
            /\ (p = 1 /\ m = 0 /\ s = 0) => clockSecs.val = 720
            /\ (p = 2 /\ m = 11 /\ s = 59) => clockSecs.val = 721

\* C1 witness: period 2 at 11:59 has been converted by the scraper's function
ClockFormulaWitness ==
    /\ clockSecs.fn = "gameclock2seconds"
    /\ clockArgs = [period |-> 2, minutes |-> 11, seconds |-> 59]
    /\ clockSecs.val = 721

------------------------------------------------------------------------------
(* SpecClockParse: the clock parsing step on arbitrary clock strings       *)

ClockAlphabet == {"0", "5", ":", ".", "x", "-"}
ClockStrings == UNION {[1..n -> ClockAlphabet] : n \in 0..MaxClockLen}

ParseInit ==
    /\ clockRow \in [period : {1, 2}, clock : ClockStrings]
    /\ clockOut = [fn |-> None, kind |-> None, val |-> 0]

SecondsPassed ==
    /\ clockOut.fn = None
    /\ clockOut' = [fn |-> "secondsPassed"] @@ secondsPassed(clockRow)
    /\ UNCHANGED clockRow /\ Frame({"parse"})

ServerSecondsPassed ==
    /\ clockOut.fn = None
    /\ clockOut' = [fn |-> "seconds_passed"] @@ seconds_passed(clockRow)
    /\ UNCHANGED clockRow /\ Frame({"parse"})

InitClockParse == ParseInit /\ Idle({"parse"})
NextClockParse == SecondsPassed \/ ServerSecondsPassed
SpecClockParse == InitClockParse /\ [][NextClockParse]_vars

\* the two recognised forms of a clock string
IsMMSS(c) ==
    LET parts == Split(c, <<":">>)
    IN  Len(parts) = 2 /\ IsDigits(parts[1]) /\ IsDigits(parts[2])

IsFraction(c) ==
    LET parts == Split(c, <<".">>)
    IN  ~Contains(c, <<":">>) /\ Len(parts) = 2 /\ IsDigits(parts[1]) /\ IsDigits(parts[2])

\* C3: a clock string in neither recognised form makes the parsing step fail;
\* it never returns elapsed seconds for such a string.
MalformedClockFails ==
    (clockOut.fn # None /\ ~IsMMSS(clockRow.clock) /\ ~IsFraction(clockRow.clock))
        => clockOut.kind # "ok"

------------------------------------------------------------------------------
(* SpecPlays: the clocks of the plays of one game, converted row by row    *)

\* the two clock displays of the source page: "M:SS" and, in the last minute, "S.t"
FormatMMSS(m, sec) == NumStr(m) \o <<":", DigitChar(sec \div 10), DigitChar(sec % 10)>>
FormatFraction(sec, t) == NumStr(sec) \o <<".", DigitChar(t)>>

\* readings of a 12-minute period clock, 12:00 at most
Readings ==
    {FormatMMSS(m, sec) : m \in {0, 1, 11}, sec \in {0, 59}}
        \cup {FormatMMSS(12, 0)}
        \cup {FormatFraction(sec, t) : sec \in {0, 59}, t \in {0, 5}}

PlayRows == [period : 1..MaxPlayPeriod, clock : Readings]

PlaysInit ==
    /\ prog \in {"scraper", "server"}
    /\ plays = <<>>

\* df.apply(self.secondsPassed, axis=1), one row at a time
ScraperNextPlay ==
    /\ prog = "scraper"
    /\ Len(plays) < MaxPlays
    /\ \E row \in PlayRows :
           plays' = Append(plays, [period |-> row.period, clock |-> row.clock,
                                   out |-> secondsPassed(row)])
    /\ UNCHANGED prog /\ Frame({"plays"})

\* df.apply(seconds_passed, axis=1), one row at a time
ServerNextPlay ==
    /\ prog = "server"
    /\ Len(plays) < MaxPlays
    /\ \E row \in PlayRows :
           plays' = Append(plays, [period |-> row.period, clock |-> row.clock,
                                   out |-> seconds_passed(row)])
    /\ UNCHANGED prog /\ Frame({"plays"})

InitPlays == PlaysInit /\ Idle({"plays"})
NextPlays == ScraperNextPlay \/ ServerNextPlay
SpecPlays == InitPlays /\ [][NextPlays]_vars

\* time left on the period clock, in tenths of a second, as the display states it
ReadingTenths(c) ==
    IF IsMMSS(c)
    THEN LET parts == Split(c, <<":">>)
         IN  (DigitsVal(parts[1]) * 60 + DigitsVal(parts[2])) * 10
    ELSE LET parts == Split(c, <<".">>)
         IN  DigitsVal(parts[1]) * 10 + DigitsVal(parts[2])

WholeSeconds(c) == ReadingTenths(c) \div 10

\* b follows a in play order
InPlayOrder(a, b) ==
    \/ a.period < b.period
    \/ a.period = b.period /\ ReadingTenths(a.clock) >= ReadingTenths(b.clock)

SameInstant(a, b) == a.period = b.period /\ ReadingTenths(a.clock) = ReadingTenths(b.clock)

\* the two plays differ in whole seconds of game time
WholeSecondApart(a, b) ==
    \/ a.period = b.period /\ WholeSeconds(a.clock) # WholeSeconds(b.clock)
    \/ a.period < b.period
        /\ ~(b.period = a.period + 1 /\ WholeSeconds(a.clock) = 0
                                     /\ WholeSeconds(b.clock) = 720)

ConsecutivePlays == {i \in 1..(Len(plays) - 1) : InPlayOrder(plays[i], plays[i + 1])}

\* C2 as stated: in play order the elapsed seconds never decrease, and they
\* increase strictly between consecutive plays that are not at the same period
\* and clock reading.
ElapsedStrictlyMonotonic ==
    \A i \in ConsecutivePlays :
        /\ plays[i].out.kind = "ok" /\ plays[i + 1].out.kind = "ok"
        /\ plays[i].out.val <= plays[i + 1].out.val
        /\ ~SameInstant(plays[i], plays[i + 1]) => plays[i].out.val < plays[i + 1].out.val

\* C2 amended: in play order, with readings of at most 12:00, the elapsed
\* seconds never decrease; they increase strictly exactly when the two plays
\* differ in whole seconds of game time (same period and a different whole
\* number of seconds left, or different periods other than 0 whole seconds left
\* followed by 12:00 of the next period).
ElapsedMonotonic ==
    \A i \in ConsecutivePlays :
        /\ plays[i].out.kind = "ok" /\ plays[i + 1].out.kind = "ok"
        /\ plays[i].out.val <= plays[i + 1].out.val
        /\ WholeSecondApart(plays[i], plays[i + 1])
               <=> plays[i].out.val < plays[i + 1].out.val

\* C2 witness: a play at 1:00 followed, in the same period, by one in the
\* fractional form, with strictly more elapsed seconds
ElapsedMonotonicWitness ==
    /\ Len(plays) = 2
    /\ plays[1].period = plays[2].period
    /\ plays[1].clock = <<"1", ":", "0", "0">>
    /\ plays[2].clock = <<"5", "9", ".", "5">>
    /\ plays[1].out.kind = "ok" /\ plays[2].out.kind = "ok"
    /\ plays[1].out.val < plays[2].out.val

------------------------------------------------------------------------------
(* SpecScore: one schedule row, from its cell texts to its two scores      *)

ScoreNumbers == {<<"1", "1", "0">>, <<"1", "0", "2">>, <<"9", "8">>, <<"1", "0", "1">>}

\* the result cell as the page shows it: result character, the two numbers
\* separated by a dash, an overtime mark
ResultText(r, sp, n1, n2, ot) == <<r>> \o sp \o n1 \o <<"-">> \o n2 \o ot

ResultChars == {"W", "L", "T"}
Blanks == {<<>>, <<" ">>}
OTMarks == {<<>>, <<" ", "O", "T">>}

ResultTexts ==
    {ResultText(r, sp, n1, n2, ot) :
        r \in ResultChars, sp \in Blanks, n1 \in ScoreNumbers, n2 \in ScoreNumbers,
        ot \in OTMarks}
    \cup {<<"P", "o", "s", "t", "p", "o", "n", "e", "d">>}

VenueTexts == {<<"v", "s", " ", "B", "O", "S">>, <<"@", " ", "B", "O", "S">>,
               <<"v", "s", "B", "O", "S">>}

ScoreInit ==
    /\ schedCells \in [venue : VenueTexts, result : ResultTexts]
    /\ schedRow = [kind |-> None]

\* get_schedule on the row, then the home filter and the two score columns
\* of get_schedule_df
ScoreRow ==
    /\ schedRow.kind = None
    /\ LET x == ScheduleFields(schedCells.venue, schedCells.result)
       IN  schedRow' =
               IF x.kind # "ok" THEN x
               ELSE IF ~x.is_home THEN [kind |-> "dropped"]
               ELSE [kind |-> "kept", home_win |-> x.result, OT |-> x.OT,
                     home_score |-> home_score(x), away_score |-> away_score(x)]
    /\ UNCHANGED schedCells /\ Frame({"score"})

InitScore == ScoreInit /\ Idle({"score"})
NextScore == ScoreRow
SpecScore == InitScore /\ [][NextScore]_vars

\* C4 as stated: on a kept home row "W110-102" gives home 110 and away 102, and
\* "L98-101" gives home 98 and away 101.
ScoreExamplesAsStated ==
    schedRow.kind = "kept" =>
        /\ schedCells.result = <<"W", "1", "1", "0", "-", "1", "0", "2">>
              => (schedRow.home_score = <<"1", "1", "0">>
                  /\ schedRow.away_score = <<"1", "0", "2">>)
        /\ schedCells.result = <<"L", "9", "8", "-", "1", "0", "1">>
              => (schedRow.home_score = <<"9", "8">>
                  /\ schedRow.away_score = <<"1", "0", "1">>)

\* C4 amended: on a kept home row the scores are the two numbers of the result
\* text, as text: the first to the home side and the second to the away side
\* when the result character is W, the second to the home side and the first
\* to the away side otherwise; "W110-102" gives home "110" and away "102",
\* "L98-101" gives home "101" and away "98".
ScoreSplitByResult ==
    schedRow.kind = "kept" =>
        /\ \A r \in ResultChars, sp \in Blanks, n1 \in ScoreNumbers, n2 \in ScoreNumbers,
                ot \in OTMarks :
              schedCells.result = ResultText(r, sp, n1, n2, ot) =>
                  /\ schedRow.home_score = IF r = "W" THEN n1 ELSE n2
                  /\ schedRow.away_score = IF r = "W" THEN n2 ELSE n1
        /\ schedCells.result = <<"W", "1", "1", "0", "-", "1", "0", "2">>
              => (schedRow.home_score = <<"1", "1", "0">>
                  /\ schedRow.away_score = <<"1", "0", "2">>)
        /\ schedCells.result = <<"L", "9", "8", "-", "1", "0", "1">>
              => (schedRow.home_score = <<"1", "0", "1">>
                  /\ schedRow.away_score = <<"9", "8">>)

\* C4 witness: the home row "L98-101" has been kept and scored
ScoreSplitWitness ==
    /\ schedRow.kind = "kept"
    /\ schedCells.result = <<"L", "9", "8", "-", "1", "0", "1">>
    /\ schedRow.home_score = <<"1", "0", "1">>

------------------------------------------------------------------------------
(* SpecTeams: the teams tables, fetched, cached and reconciled             *)

\* the league as source A (team links of the teams page) names it
EspnTeams ==
    <<[name |-> "Atlanta Hawks", tag |-> "atlanta-hawks", code |-> "atl",
       url |-> "/nba/team/_/name/atl/atlanta-hawks"],
      [name |-> "LA Clippers", tag |-> "la-clippers", code |-> "lac",
       url |-> "/nba/team/_/name/lac/la-clippers"],
      [name |-> "Utah Jazz", tag |-> "utah-jazz", code |-> "utah",
       url |-> "/nba/team/_/name/utah/utah-jazz"],
      [name |-> "Boston Celtics", tag |-> "boston-celtics", code |-> "bos",
       url |-> "/nba/team/_/name/bos/boston-celtics"]>>

\* the same league as source B (team links of the standings page) names it
BrefTeams ==
    <<[name |-> "Atlanta Hawks", bref_url |-> "/teams/ATL/2023.html", bref_code |-> "ATL"],
      [name |-> "Los Angeles Clippers", bref_url |-> "/teams/LAC/2023.html",
       bref_code |-> "LAC"],
      [name |-> "Utah Jazz", bref_url |-> "/teams/UTA/2023.html", bref_code |-> "UTA"],
      [name |-> "Boston Celtics", bref_url |-> "/teams/BOS/2023.html", bref_code |-> "BOS"]>>

League == 1..NumTeams

\* the sequences listing each member of S once
Orderings(S) == {f \in [1..Cardinality(S) -> S] : \A i, j \in DOMAIN f : f[i] = f[j] => i = j}

\* source A lists the whole league, in any page order
EspnPages == {[i \in DOMAIN f |-> EspnTeams[f[i]]] : f \in Orderings(League)}

\* source B lists the whole league, or misses one team, in any page order
BrefPages ==
    {[i \in DOMAIN f |-> BrefTeams[f[i]]] :
        f \in UNION {Orderings(S) : S \in {League} \cup {League \ {t} : t \in League}}}

TeamsInit ==
    /\ espnPage \in EspnPages
    /\ brefPage \in BrefPages
    /\ teamsFile = NoFile
    /\ brefFile = NoFile
    /\ teamsRet = [op |-> None, kind |-> None, df |-> <<>>]

Cache == [teams |-> teamsFile, bref |-> brefFile]
Nets == [espn : BOOLEAN, bref : BOOLEAN]

TeamsCall(op, r) ==
    /\ teamsFile' = r.fs.teams
    /\ brefFile' = r.fs.bref
    /\ teamsRet' = [op |-> op, kind |-> r.kind, df |-> r.df]
    /\ UNCHANGED <<espnPage, brefPage>> /\ Frame({"teams"})

GetTeamsDf == \E net \in Nets : TeamsCall("get_teams_df", get_teams_df(Cache, net))

GetBrefTeamsDf == \E net \in Nets : TeamsCall("get_bref_teams_df", get_bref_teams_df(Cache, net))

FixTeamsDf == \E net \in Nets : TeamsCall("fix_teams_df", fix_teams_df(Cache, net))

InitTeams == TeamsInit /\ Idle({"teams"})
NextTeams == GetTeamsDf \/ GetBrefTeamsDf \/ FixTeamsDf
SpecTeams == InitTeams /\ [][NextTeams]_vars

\* the two sources list the same league and differ by the one franchise name
SameLeague == Len(brefPage) = NumTeams

\* the table fix_teams_df has just reconciled and saved
JustReconciled ==
    /\ teamsRet.op = "fix_teams_df" /\ teamsRet.kind = "ok"
    /\ teamsFile # NoFile

RowsNamed(rows, n) == {i \in 1..Len(rows) : rows[i].name = n}

\* C7: with the same league in both sources, the table fix_teams_df saves has
\* each team in exactly one row with both its shortCode and its alternateCode,
\* and the divergent franchise under the canonical name and the canonical tag,
\* never under the source-A name or the source-A tag.
ReconciledCanonical ==
    (JustReconciled /\ SameLeague) =>
        LET rows == teamsFile[1].rows
        IN  /\ Len(rows) = NumTeams
            /\ \A t \in League :
                   \E i \in 1..Len(rows) :
                       /\ rows[i].code = EspnTeams[t].code
                       /\ rows[i].bref_code = BrefTeams[t].bref_code
                       /\ \A j \in 1..Len(rows) : rows[j].code = rows[i].code => j = i
            /\ RowsNamed(rows, "LA Clippers") = {}
            /\ \A i \in 1..Len(rows) : rows[i].tag # "la-clippers"
            /\ \A i \in RowsNamed(rows, "Los Angeles Clippers") :
                   rows[i].tag = "los-angeles-clippers"

\* the table carries the alternateCode column, filled for every team
FullyReconciled(table) ==
    /\ "bref_code" \in table.columns
    /\ \A i \in 1..Len(table.rows) : table.rows[i].bref_code # NaN

\* get_teams_df has just returned a table
TeamsReturned == teamsRet.op = "get_teams_df" /\ teamsRet.kind = "ok"

\* C11: over any sequence of calls of get_teams_df, get_bref_teams_df and
\* fix_teams_df, failed fetches included, every table get_teams_df returns
\* is the fully reconciled one, with the alternateCode of every team, and
\* the table left in the cache is never the unreconciled source-A table.
CacheAlwaysReconciled ==
    /\ TeamsReturned => FullyReconciled(teamsRet.df[1])
    /\ teamsFile # NoFile => "bref_code" \in teamsFile[1].columns

------------------------------------------------------------------------------
(* ScheduleDeduplicator: get_schedule_df over the schedule pages           *)
(* A page row is [date, venue, result, link, opponent]: the date cell, the *)
(* venue and result cell texts, the game link (<<>> when the cell has      *)
(* none, else <<game>>) and the opponent's tag.                            *)

\* the assertion of get_schedule_df compares with 30 * 82 / 2
SeasonTeams == 30
SeasonGames == 82

\* DataESPN.get_schedule on one fetched page: a list of row dicts, or the
\* exception a row raised
get_schedule(page, team_tag) ==
    LET fields == [i \in 1..Len(page) |-> ScheduleFields(page[i].venue, page[i].result)]
    IN  IF \E i \in 1..Len(page) : fields[i].kind # "ok" THEN Raise("IndexError")
        ELSE [kind |-> "ok",
              val |-> [i \in 1..Len(page) |->
                         [date |-> page[i].date,
                          is_home |-> fields[i].is_home,
                          result |-> fields[i].result,
                          scores |-> fields[i].scores,
                          OT |-> fields[i].OT,
                          game_url |-> page[i].link,
                          schedule_of |-> team_tag,
                          openent |-> page[i].opponent]]]

\* get_schedule_df lines 165-175: the home rows, scored, under the new column names
HomeRows(schedule_data) ==
    LET home == SelectSeq(schedule_data, LAMBDA x : x.is_home)
    IN  [i \in 1..Len(home) |->
            [date |-> home[i].date, home_win |-> home[i].result, OT |-> home[i].OT,
             url |-> home[i].game_url, home_team |-> home[i].schedule_of,
             away_team |-> home[i].openent,
             home_score |-> home_score(home[i]), away_score |-> away_score(home[i])]]

\* drop_duplicates(subset=['url']): the first row of every url is kept
\* (missing urls count as one url)
DropDuplicateUrls(rows) ==
    SelectSeq([i \in 1..Len(rows) |->
                  [row |-> rows[i],
                   first |-> \A j \in 1..(i - 1) : rows[j].url # rows[i].url]],
              LAMBDA x : x.first)

\* dropna(): the only column that can be missing is url (<<>>)
DropNa(rows) == SelectSeq(rows, LAMBDA x : x.url # <<>>)

\* get_schedule_df lines 161-181 on the fetched rows
Deduplicate(schedule_data) ==
    LET kept == DropDuplicateUrls(HomeRows(schedule_data))
    IN  DropNa([i \in 1..Len(kept) |-> kept[i].row])

\* DataESPN.get_schedule_df.  pages[tag] is the schedule page of a team,
\* fs the cache [teams, bref, schedule], net = [espn, bref, schedule] says
\* which fetches succeed, asScript whether scraper.py runs as __main__ (the
\* cached branch reads the module global `data`).  Yields [fs, kind, df].
get_schedule_df(fs, net, pages, asScript) ==
    IF fs.schedule # NoFile THEN
        IF asScript THEN Returned(fs, fs.schedule) ELSE Failed(fs, "NameError")
    ELSE
        LET teams == get_teams_df([teams |-> fs.teams, bref |-> fs.bref], net)
            fs1 == [fs EXCEPT !.teams = teams.fs.teams, !.bref = teams.fs.bref]
        IN  IF teams.kind # "ok" THEN Failed(fs1, teams.kind)
            ELSE IF ~net.schedule THEN Failed(fs1, "ConnectionError")
            ELSE
                LET rows == teams.df[1].rows
                    fetched == [i \in 1..Len(rows) |-> get_schedule(pages[rows[i].tag], rows[i].tag)]
                IN  IF \E i \in 1..Len(rows) : fetched[i].kind # "ok"
                    THEN Failed(fs1, "IndexError")
                    ELSE
                        LET schedule_df == Deduplicate(
                                FlattenSeq([i \in 1..Len(rows) |-> fetched[i].val]))
                        IN  IF Len(schedule_df) * 2 # SeasonTeams * SeasonGames
                            THEN Failed(fs1, "AssertionError")
                            ELSE Returned([fs1 EXCEPT !.schedule = <<schedule_df>>],
                                          <<schedule_df>>)

------------------------------------------------------------------------------
(* SpecSchedule: a season of the league on the schedule pages              *)

\* every team hosts every other team once: game k is home h against away a
Games ==
    SelectSeq([k \in 1..(NumTeams * NumTeams) |->
                  [id |-> k, home |-> ((k - 1) \div NumTeams) + 1,
                   away |-> ((k - 1) % NumTeams) + 1]],
              LAMBDA g : g.home # g.away)

GamesPerTeam == 2 * (NumTeams - 1)

GameIds == {Games[i].id : i \in 1..Len(Games)}

\* what can be wrong with the pages: nothing; the home row of a game is
\* missing; a game shows as a home game on both teams' pages (neutral site);
\* a game has no link
Faults ==
    {[kind |-> "none", game |-> 0]}
        \cup [kind : {"missing", "neutral", "nolink"}, game : GameIds]

Seasons == [results : [GameIds -> {"W", "L"}], fault : Faults]

\* the result cell: the result character, then the winner's score first
SeasonResultText(ch) == ResultText(ch, <<>>, <<"1", "1", "0">>, <<"1", "0", "2">>, <<>>)

Opposite(ch) == IF ch = "W" THEN "L" ELSE "W"

\* the schedule page of team t under season ssn
SchedulePage(ssn, t) ==
    LET mine == SelectSeq(Games, LAMBDA g :
                    (g.home = t /\ ssn.fault # [kind |-> "missing", game |-> g.id])
                    \/ g.away = t)
    IN  [i \in 1..Len(mine) |->
            LET g == mine[i]
                atHome == g.home = t \/ ssn.fault = [kind |-> "neutral", game |-> g.id]
            IN  [date |-> g.id,
                 venue |-> IF atHome THEN <<"v", "s", " ", "O", "P", "P">>
                           ELSE <<"@", " ", "O", "P", "P">>,
                 result |-> SeasonResultText(IF g.home = t THEN ssn.results[g.id]
                                             ELSE Opposite(ssn.results[g.id])),
                 link |-> IF ssn.fault = [kind |-> "nolink", game |-> g.id]
                          THEN <<>> ELSE <<g.id>>,
                 opponent |-> IF g.home = t THEN EspnTeams[g.away].tag
                              ELSE EspnTeams[g.home].tag]]

SchedulePages(ssn) ==
    [tag \in {EspnTeams[t].tag : t \in League} |->
        SchedulePage(ssn, CHOOSE t \in League : EspnTeams[t].tag = tag)]

LeagueEspnPage == [t \in League |-> EspnTeams[t]]
LeagueBrefPage == [t \in League |-> BrefTeams[t]]

\* the teams table is in the cache, reconciled; no schedule is
SchedInit ==
    /\ season \in Seasons
    /\ scheduleFile = NoFile
    /\ schedRet = [op |-> None, kind |-> None, df |-> <<>>]
    /\ espnPage = LeagueEspnPage
    /\ brefPage = LeagueBrefPage
    /\ teamsFile = <<Reconcile(EspnTeamsTable(LeagueEspnPage), BrefTeamsTable(LeagueBrefPage))>>
    /\ brefFile = <<BrefTeamsTable(LeagueBrefPage)>>
    /\ teamsRet = [op |-> None, kind |-> None, df |-> <<>>]

GetScheduleDf ==
    /\ schedRet.op = None
    /\ \E net \in [espn : BOOLEAN, bref : BOOLEAN, schedule : BOOLEAN], asScript \in BOOLEAN :
           \E r \in {get_schedule_df([teams |-> teamsFile, bref |-> brefFile,
                                      schedule |-> scheduleFile],
                                     net, SchedulePages(season), asScript)} :
               /\ teamsFile' = r.fs.teams
               /\ brefFile' = r.fs.bref
               /\ scheduleFile' = r.fs.schedule
               /\ schedRet' = [op |-> "get_schedule_df", kind |-> r.kind, df |-> r.df]
    /\ UNCHANGED <<season, espnPage, brefPage, teamsRet>>
    /\ Frame({"teams", "sched"})

InitSchedule == SchedInit /\ Idle({"teams", "sched"})
NextSchedule == GetScheduleDf
SpecSchedule == InitSchedule /\ [][NextSchedule]_vars

\* what the deduplication leaves of the season's pages, whatever the call did
SeasonRows ==
    Deduplicate(FlattenSeq([t \in League |->
        get_schedule(SchedulePage(season, t), EspnTeams[t].tag).val]))

\* C5: when every game appears once per participant the call returns exactly
\* teams * gamesPerTeam / 2 rows, all home rows with pairwise distinct
\* gameRef; when the row count differs from teams * gamesPerTeam / 2 the call
\* fails with a validation error and no schedule is returned or saved.
ScheduleCountContract ==
    schedRet.op = "get_schedule_df" =>
        /\ (season.fault.kind = "none" /\ schedRet.kind # "ConnectionError") =>
               /\ schedRet.kind = "ok"
               /\ Len(schedRet.df[1]) * 2 = NumTeams * GamesPerTeam
               /\ \A i, j \in 1..Len(schedRet.df[1]) :
                      schedRet.df[1][i].url = schedRet.df[1][j].url => i = j
               /\ \A i \in 1..Len(schedRet.df[1]) :
                      \E g \in 1..Len(Games) :
                          /\ schedRet.df[1][i].url = <<Games[g].id>>
                          /\ schedRet.df[1][i].home_team = EspnTeams[Games[g].home].tag
        /\ (Len(SeasonRows) * 2 # NumTeams * GamesPerTeam
               /\ schedRet.kind # "ConnectionError") =>
               /\ schedRet.kind = "AssertionError"
               /\ schedRet.df = <<>>
               /\ scheduleFile = NoFile

------------------------------------------------------------------------------
(* SpecAttrib: player attribution of one play text                         *)

TextAlphabet == {"a", "b", "."}
Strings(alphabet, lo, hi) == UNION {[1..n -> alphabet] : n \in lo..hi}

CandidateNames == Strings(TextAlphabet, 1, MaxNameLen)

\* the candidate sets, each in every iteration order
CandidateLists ==
    {f \in UNION {[1..n -> CandidateNames] : n \in 0..MaxNames} :
        \A i, j \in DOMAIN f : f[i] = f[j] => i = j}

AttrInit ==
    /\ attrText \in Strings(TextAlphabet, 0, MaxTextLen)
    /\ attrNames \in CandidateLists
    /\ attrOut = [kind |-> None, val |-> <<>>]

AddPlayerNames ==
    /\ attrOut.kind = None
    /\ attrOut' = playerNames(attrText, attrNames)
    /\ UNCHANGED <<attrText, attrNames>>
    /\ Frame({"attr"})

InitAttrib == AttrInit /\ Idle({"attr"})
NextAttrib == AddPlayerNames
SpecAttrib == InitAttrib /\ [][NextAttrib]_vars

\* 0-based offset of the first literal occurrence of name in text
LiteralOffset(name, text) == Find(text, name) - 1

\* C6: the attribution returns exactly the candidate names that occur literally
\* in the text, in ascending order of the offset of their first literal
\* occurrence.
AttributionByLiteralOffset ==
    attrOut.kind # None =>
        /\ attrOut.kind = "ok"
        /\ {attrOut.val[i] : i \in 1..Len(attrOut.val)}
              = {attrNames[i] : i \in {j \in 1..Len(attrNames) : Contains(attrText, attrNames[j])}}
        /\ \A i, j \in 1..Len(attrOut.val) : attrOut.val[i] = attrOut.val[j] => i = j
        /\ \A i \in 1..(Len(attrOut.val) - 1) :
               LiteralOffset(attrOut.val[i], attrText)
                   <= LiteralOffset(attrOut.val[i + 1], attrText)

------------------------------------------------------------------------------
(* RosterIndex and the play-by-play handlers                               *)
(* The cache is fs = [teams, bref, players]; net says which fetches        *)
(* succeed; items is what lines 265-269 (135-138) made of the game page.   *)

\* the roster tables of the source-B team pages: the player names per team
RosterPage ==
    [c \in {"ATL", "LAC", "UTA", "BOS"} |->
        CASE c = "ATL" -> <<<<"a", "b">>, <<"b">>>>
          [] c = "LAC" -> <<<<"b">>>>
          [] c = "UTA" -> <<<<"a">>>>
          [] c = "BOS" -> <<<<"a", "b">>>>]

\* get_players_df
get_players_df(fs, net) ==
    IF fs.players # NoFile THEN Returned(fs, fs.players)
    ELSE LET t == get_teams_df(fs, net)
             rows == t.df[1].rows
             players_df ==
                 FlattenSeq([i \in 1..Len(rows) |->
                     [j \in 1..Len(RosterPage[rows[i].bref_code]) |->
                         [name |-> RosterPage[rows[i].bref_code][j],
                          bref_code |-> rows[i].bref_code]]])
         IN  IF t.kind # "ok" THEN Failed(t.fs, t.kind)
             ELSE IF "bref_code" \notin t.df[1].columns THEN Failed(t.fs, "KeyError")
             ELSE IF rows # <<>> /\ rows[1].bref_code = NaN THEN Failed(t.fs, "AttributeError")
             ELSE IF ~net.rosters THEN Failed(t.fs, "ConnectionError")
             \* team_code.upper() of a team the source-B page did not list
             ELSE IF \E i \in 1..Len(rows) : rows[i].bref_code = NaN
                  THEN Failed(t.fs, "AttributeError")
             ELSE Returned([t.fs EXCEPT !.players = <<players_df>>], <<players_df>>)

\* a set in its iteration order, iter listing every name that order knows
SetOrder(S, iter) == SelectSeq(iter, LAMBDA n : n \in S)

\* add_player_names: the playerNames column of the frame; the two tables
\* read, and then the player set in its iteration order, are bound once
add_player_names(fs, net, rows, team_tags, iter) ==
    CHOOSE r \in
        {IF p.kind # "ok" THEN Failed(p.fs, p.kind)
         ELSE CHOOSE q \in
            {IF t.kind # "ok" THEN Failed(t.fs, t.kind)
             ELSE IF "bref_code" \notin t.df[1].columns THEN Failed(t.fs, "KeyError")
             ELSE CHOOSE o \in
                {IF \E i \in 1..Len(names) : names[i].kind # "ok"
                 THEN Failed(t.fs, "AttributeError")
                 ELSE Returned(t.fs, <<[i \in 1..Len(names) |-> names[i].val]>>) :
                 names \in
                    {LET teams == t.df[1].rows
                         codes == {teams[i].bref_code :
                                      i \in {k \in 1..Len(teams) : teams[k].tag \in team_tags}}
                         players == p.df[1]
                         player_set == {players[i].name :
                                           i \in {k \in 1..Len(players) :
                                                     players[k].bref_code \in codes}}
                     IN  [i \in 1..Len(rows) |->
                            playerNames(rows[i].text, SetOrder(player_set, iter))]}} : TRUE :
             t \in {get_teams_df(p.fs, net)}} : TRUE :
         p \in {get_players_df(fs, net)}} : TRUE

\* get_playbyplay_df; the frame and the names column are bound once
get_playbyplay_df(fs, net, items, team_tags, iter) ==
    IF ~net.game THEN Failed(fs, "ConnectionError")
    ELSE IF items.kind # "ok" THEN Failed(fs, items.kind)
    ELSE CHOOSE r \in
        {IF df.kind # "ok" THEN Failed(fs, df.kind)
         ELSE CHOOSE q \in
            {IF names.kind # "ok" THEN Failed(names.fs, names.kind)
             ELSE Returned(names.fs,
                           <<[i \in 1..Len(df.val) |->
                                df.val[i] @@ [playerNames |-> names.df[1][i]]]>>) :
             names \in {add_player_names(fs, net, df.val, team_tags, iter)}} : TRUE :
         df \in {NormalizeScraper(items.val)}} : TRUE

\* _fetch_highlights: it returns the frame at line 155; the DynamoDB writes
\* and the event of lines 156-204 follow that return and never run
_fetch_highlights(net, items) ==
    IF ~net.game THEN Raise("ConnectionError")
    ELSE IF items.kind # "ok" THEN Raise(items.kind)
    ELSE NormalizeServer(items.val)

KeyGameId == <<"g", "a", "m", "e", "-", "i", "d">>
KeySubscribeURL == <<"S", "u", "b", "s", "c", "r", "i", "b", "e", "U", "R", "L">>

Answer(status, kind, game, df) == [status |-> status, kind |-> kind, game |-> game, df |-> df]

\* confirm_subscription, its header test being the caller's
confirm_subscription(data, net) ==
    IF data.t # "dict" THEN Answer(500, "TypeError", <<>>, <<>>)
    ELSE IF Lookup(data, KeySubscribeURL) = <<>> THEN Answer(500, "KeyError", <<>>, <<>>)
    ELSE IF net.sns THEN Answer(200, "SubscriptionConfirmed", <<>>, <<>>)
    ELSE Answer(500, "Failed to confirm subscription", <<>>, <<>>)

\* fetch_highlights from line 113 on; an exception leaves the handler as a 500
FetchGame(game_id, net, items) ==
    LET df == _fetch_highlights(net, items)
    IN  IF df.kind # "ok" THEN Answer(500, df.kind, game_id, <<>>)
        ELSE Answer(200, "ok", game_id, <<df.val>>)

\* fetch_highlights; request = [method, sns, args, data]
fetch_highlights(request, net, items) ==
    IF request.method = "GET" THEN FetchGame(request.args, net, items)
    ELSE LET data == json_loads(request.data)
         IN  IF data.kind # "ok" THEN Answer(400, data.kind, <<>>, <<>>)
             ELSE IF request.sns THEN confirm_subscription(data.val, net)
             ELSE IF data.val.t # "dict" THEN Answer(500, "TypeError", <<>>, <<>>)
             ELSE IF Lookup(data.val, KeyGameId) = <<>> THEN Answer(500, "KeyError", <<>>, <<>>)
             ELSE FetchGame(<<Lookup(data.val, KeyGameId)[1]>>, net, items)

------------------------------------------------------------------------------
(* SpecPipeline: the play-by-play page of one game, read by both programs  *)

\* json.dumps(v, separators=(',', ':')) as the site embeds the value
RECURSIVE Dump(_), DumpItems(_), DumpMembers(_)
Dump(v) ==
    CASE v.t = "str" -> <<Quote>> \o v.v \o <<Quote>>
      [] v.t = "int" -> NumStr(v.v)
      [] v.t = "bool" -> IF v.v THEN <<"t", "r", "u", "e">> ELSE <<"f", "a", "l", "s", "e">>
      [] v.t = "null" -> <<"n", "u", "l", "l">>
      [] v.t = "list" -> <<"[">> \o DumpItems(v.v) \o <<"]">>
      [] v.t = "dict" -> <<"{">> \o DumpMembers(v.v) \o <<"}">>
DumpItems(items) ==
    IF items = <<>> THEN <<>>
    ELSE IF Len(items) = 1 THEN Dump(items[1])
    ELSE Dump(items[1]) \o <<",">> \o DumpItems(Tail(items))
DumpMembers(members) ==
    IF members = <<>> THEN <<>>
    ELSE LET m == <<Quote>> \o members[1].k \o <<Quote, ":">> \o Dump(members[1].v)
         IN  IF Len(members) = 1 THEN m ELSE m \o <<",">> \o DumpMembers(Tail(members))

Member(k, v) == [k |-> k, v |-> v]

\* the entries a page can hold: a play with every field; a free throw
\* with a fractional clock and no venue or scoring flag; an entry without
\* its period, its text null; a play whose id is no number, without text
RawEntries ==
    <<JDict(<<Member(KeyId, JStr(<<"1">>)),
              Member(KeyPeriod, JDict(<<Member(KeyNumber, JInt(1))>>)),
              Member(KeyText, JStr(<<"a", "b">>)),
              Member(KeyHomeAway, JStr(<<"h", "o", "m", "e">>)),
              Member(KeyClock, JDict(<<Member(KeyDisplayValue, JStr(<<"1", "2", ":", "0", "0">>))>>)),
              Member(KeyScoringPlay, JBool(TRUE))>>),
      JDict(<<Member(KeyId, JStr(<<"2">>)),
              Member(KeyPeriod, JDict(<<Member(KeyNumber, JInt(2))>>)),
              Member(KeyText, JStr(<<"b", " ">> \o FreeThrow)),
              Member(KeyClock, JDict(<<Member(KeyDisplayValue, JStr(<<"5", "9", ".", "5">>))>>))>>),
      JDict(<<Member(KeyId, JStr(<<"3">>)),
              Member(KeyText, JNull),
              Member(KeyHomeAway, JStr(<<"a", "w", "a", "y">>)),
              Member(KeyClock, JDict(<<Member(KeyDisplayValue, JStr(<<"0", ":", "0", "0">>))>>)),
              Member(KeyScoringPlay, JBool(FALSE))>>),
      JDict(<<Member(KeyId, JStr(<<"x", "4">>)),
              Member(KeyPeriod, JDict(<<Member(KeyNumber, JInt(2))>>)),
              Member(KeyHomeAway, JStr(<<"h", "o", "m", "e">>)),
              Member(KeyClock, JDict(<<Member(KeyDisplayValue, JStr(<<"0", ":", "0", "0">>))>>)),
              Member(KeyScoringPlay, JBool(FALSE))>>)>>

\* the entries of a blob in nested order, as indices of RawEntries
EntrySeqs == UNION {[1..k -> DOMAIN RawEntries] : k \in 0..MaxEntries}

\* the blob whose groups hold the entries gs lists
Blob(gs) == JList([g \in 1..Len(gs) |-> JList([i \in 1..Len(gs[g]) |-> RawEntries[gs[g][i]]])])

\* the nested blobs: up to MaxEntries entries, in one group or cut anywhere
\* into two groups, either of which may be empty
Blobs ==
    {Blob(<<e>>) : e \in EntrySeqs} \cup
    {Blob(<<SubSeq(x[1], 1, x[2]), SubSeq(x[1], x[2] + 1, Len(x[1]))>>) :
        x \in {y \in EntrySeqs \X (0..MaxEntries) : y[2] <= Len(y[1])}}

PageFaults == {"none", "noanchor", "lastmember", "cut", "fewscripts"}

\* the text of the data script: the page state object with the play groups
\* among its members; "noanchor": the object has no play groups;
\* "lastmember": the play groups are its last member; "cut": the text ends
\* three characters before the end of the play groups
DataScript(blob, fault) ==
    LET head == <<"{", Quote>> \o Anchor \o <<Quote, ":">>
        tail == <<",", Quote, "t", Quote, ":", "0", "}">>
        dump == Dump(blob)
    IN  CASE fault = "noanchor" -> <<"{", Quote, "t", Quote, ":", "0", "}">>
          [] fault = "lastmember" -> head \o dump \o <<"}">>
          [] fault = "cut" -> head \o SubSeq(dump, 1, Len(dump) - 3)
          [] OTHER -> head \o dump \o tail

\* the texts of the page's script elements: the data script is the fifth
\* from the end, unless the page has fewer scripts
GamePage(blob, fault) ==
    IF fault = "fewscripts" THEN <<DataScript(blob, fault), <<>>, <<>>, <<>>>>
    ELSE <<<<>>, DataScript(blob, fault), <<>>, <<>>, <<>>, <<>>>>

\* one of the two programs runs; the data directory holds the reference
\* tables, built by earlier calls; the site holds a game page
PipeInit ==
    /\ espnPage = LeagueEspnPage
    /\ brefPage = LeagueBrefPage
    /\ \E built \in {get_players_df([teams |-> NoFile, bref |-> NoFile, players |-> NoFile],
                                     [espn |-> TRUE, bref |-> TRUE, rosters |-> TRUE])} :
          /\ teamsFile = built.fs.teams
          /\ brefFile = built.fs.bref
          /\ playersFile = built.fs.players
    /\ teamsRet = [op |-> None, kind |-> None, df |-> <<>>]
    /\ prog \in {"scraper", "server"}
    /\ plays = <<>>
    /\ gameBlob \in Blobs
    /\ pageFault \in PageFaults
    /\ pbpRet = [kind |-> None, df |-> <<>>]
    /\ response = Answer(0, None, <<>>, <<>>)
    /\ dynamoTable = <<>>
    /\ events = <<>>

\* the game page may fail to load; the reference tables are read from the cache
ScraperNets == [game : BOOLEAN, espn : {TRUE}, bref : {TRUE}, rosters : {TRUE}]
ServerNets == [game : BOOLEAN, sns : BOOLEAN]

\* the team_tags arguments of the calls
TagPairs == {{"atlanta-hawks", "utah-jazz"}, {"la-clippers", "utah-jazz"}}

\* every player name of the roster pages
AllNames == UNION {{RosterPage[c][j] : j \in 1..Len(RosterPage[c])} : c \in DOMAIN RosterPage}

\* the requests the server is sent
Requests ==
    {[method |-> "GET", sns |-> FALSE, args |-> <<JStr(<<"7">>)>>, data |-> <<>>],
     [method |-> "POST", sns |-> FALSE, args |-> <<>>,
      data |-> Dump(JDict(<<Member(KeyGameId, JStr(<<"7">>))>>))],
     [method |-> "POST", sns |-> FALSE, args |-> <<>>, data |-> <<"{">>],
     [method |-> "POST", sns |-> FALSE, args |-> <<>>, data |-> <<"{", "}">>],
     [method |-> "POST", sns |-> TRUE, args |-> <<>>,
      data |-> Dump(JDict(<<Member(KeySubscribeURL, JStr(<<"u">>))>>))],
     [method |-> "POST", sns |-> TRUE, args |-> <<>>, data |-> <<"{", "}">>]}

PipeCache == [teams |-> teamsFile, bref |-> brefFile, players |-> playersFile]

\* DataESPN.get_playbyplay_df(game_url, team_tags)
GetPlaybyplayDf ==
    /\ prog = "scraper"
    /\ \E items \in {PageItems(GamePage(gameBlob, pageFault))} :
       \E net \in ScraperNets, team_tags \in TagPairs, iter \in Orderings(AllNames) :
       \E r \in {get_playbyplay_df(PipeCache, net, items, team_tags, iter)} :
          /\ teamsFile' = r.fs.teams
          /\ brefFile' = r.fs.bref
          /\ playersFile' = r.fs.players
          /\ pbpRet' = [kind |-> r.kind, df |-> r.df]
          /\ UNCHANGED <<prog, plays, gameBlob, pageFault, response, dynamoTable, events,
                         espnPage, brefPage, teamsRet>>
          /\ Frame({"pipe", "teams", "plays"})

\* the /fetch-highlights route of the server
FetchHighlights ==
    /\ prog = "server"
    /\ \E items \in {PageItems(GamePage(gameBlob, pageFault))} :
       \E net \in ServerNets, request \in Requests :
          /\ response' = fetch_highlights(request, net, items)
          /\ UNCHANGED <<prog, plays, gameBlob, pageFault, playersFile, pbpRet,
                         dynamoTable, events>>
          /\ UNCHANGED teamVars
          /\ Frame({"pipe", "teams", "plays"})

InitPipeline == PipeInit /\ Idle({"pipe", "teams", "plays"})
NextPipeline == GetPlaybyplayDf \/ FetchHighlights
SpecPipeline == InitPipeline /\ [][NextPipeline]_vars

\* the text extraction works on: the fifth script from the end of the page
ScriptText == GamePage(gameBlob, pageFault)[Len(GamePage(gameBlob, pageFault)) - 4]

AnchorAbsent == ~Contains(ScriptText, Anchor)
ClosingAbsent ==
    /\ Contains(ScriptText, Anchor)
    /\ ~Contains(Drop(ScriptText, Find(ScriptText, Anchor) + Len(Anchor)), Closing)

\* the last call loaded the game page
PageLoaded ==
    \/ prog = "scraper" /\ pbpRet.kind \notin {None, "ConnectionError"}
    \/ prog = "server" /\ response.game # <<>> /\ response.kind # "ConnectionError"

\* the last call got as far as the extraction: the page loaded and has the
\* script the code picks
ExtractionRan == PageLoaded /\ Len(GamePage(gameBlob, pageFault)) >= 5

\* how the last call ended, and the frame it returned (<<>> when none)
CallKind == IF prog = "scraper" THEN pbpRet.kind ELSE response.kind
CallFrame == IF prog = "scraper" THEN pbpRet.df ELSE response.df

\* C8: whenever the anchor token is absent from the script text, or the
\* closing pattern is absent after the anchor, the extraction fails with an
\* extraction error and returns no parsed value; it neither parses the
\* untruncated text nor surfaces as a generic parse or index crash.
ExtractionErrorRaised ==
    (ExtractionRan /\ (AnchorAbsent \/ ClosingAbsent))
        => (CallKind = "ExtractionError" /\ CallFrame = <<>>)

\* the sum of the group lengths of a blob
RECURSIVE SumOfGroupLengths(_)
SumOfGroupLengths(groups) ==
    IF groups = <<>> THEN 0 ELSE Len(groups[1].v) + SumOfGroupLengths(Tail(groups))

\* the i-th entry of a blob in nested order: groups in order, entries in
\* order inside each group
RECURSIVE NestedEntry(_, _)
NestedEntry(groups, i) ==
    IF i <= Len(groups[1].v) THEN groups[1].v[i]
    ELSE NestedEntry(Tail(groups), i - Len(groups[1].v))

\* the value an entry carries under a key, <<>> when it carries none or null
Carried(entry, key) ==
    LET at == {m \in 1..Len(entry.v) : entry.v[m].k = key /\ entry.v[m].v.t # "null"}
    IN  IF at = {} THEN <<>> ELSE <<entry.v[CHOOSE m \in at : TRUE].v>>

\* the record is the one the entry stands for
DerivedFrom(record, entry) ==
    /\ Carried(entry, KeyId) # <<>>
    /\ Carried(entry, KeyId)[1].v = IF prog = "scraper" THEN NumStr(record.id) ELSE record.id
    /\ Carried(entry, KeyPeriod) # <<>>
    /\ Carried(Carried(entry, KeyPeriod)[1], KeyNumber) = <<JInt(record.period)>>
    /\ Carried(entry, KeyClock) # <<>>
    /\ Carried(Carried(entry, KeyClock)[1], KeyDisplayValue) = <<JStr(record.clock)>>
    /\ IF Carried(entry, KeyText) = <<>> THEN record.text = <<>>
       ELSE Carried(entry, KeyText) = <<JStr(record.text)>>
    /\ IF Carried(entry, KeyHomeAway) = <<>> THEN record.homeAway = Neutral
       ELSE Carried(entry, KeyHomeAway) = <<JStr(record.homeAway)>>
    /\ IF Carried(entry, KeyScoringPlay) = <<>> THEN record.scoringPlay = FALSE
       ELSE Carried(entry, KeyScoringPlay) = <<JBool(record.scoringPlay)>>
    /\ prog = "scraper" =>
          /\ record.FT = Contains(record.text, FreeThrow)
          /\ \A k \in 1..Len(record.playerNames) :
                /\ record.playerNames[k] \in AllNames
                /\ Contains(record.text, record.playerNames[k])
                /\ \A j \in 1..(k - 1) : record.playerNames[j] # record.playerNames[k]

\* every entry carries an id of digits, a period and a clock, and each
\* optional field is carried by some entry
Schematic(blob) ==
    /\ SumOfGroupLengths(blob.v) > 0
    /\ \A i \in 1..SumOfGroupLengths(blob.v) :
          LET e == NestedEntry(blob.v, i)
          IN  /\ Carried(e, KeyId) # <<>> /\ IsDigits(Carried(e, KeyId)[1].v)
              /\ Carried(e, KeyPeriod) # <<>> /\ Carried(e, KeyClock) # <<>>
    /\ \A key \in {KeyText, KeyHomeAway, KeyScoringPlay} :
          \E i \in 1..SumOfGroupLengths(blob.v) : Carried(NestedEntry(blob.v, i), key) # <<>>

\* C9: the frame a call returns has as many records as the groups of the
\* blob have entries, and its i-th record is derived from the i-th entry in
\* nested order; nothing is dropped, duplicated or reordered by the
\* flattening, the normalization or the attribution.  On the usual page a
\* blob of schematic entries whose last group is not empty does get its frame.
FlattenPreservesEntries ==
    /\ CallKind = "ok" =>
          /\ Len(CallFrame[1]) = SumOfGroupLengths(gameBlob.v)
          /\ \A i \in 1..Len(CallFrame[1]) :
                DerivedFrom(CallFrame[1][i], NestedEntry(gameBlob.v, i))
    /\ (/\ PageLoaded /\ pageFault = "none" /\ Schematic(gameBlob)
        /\ gameBlob.v[Len(gameBlob.v)].v # <<>>) => CallKind = "ok"

\* a frame of two different plays from two groups, with names attributed
FlattenPreservesEntriesWitness ==
    /\ prog = "scraper" /\ pbpRet.kind = "ok"
    /\ Len(gameBlob.v) = 2 /\ Len(gameBlob.v[1].v) = 1 /\ Len(gameBlob.v[2].v) = 1
    /\ gameBlob.v[1].v[1] # gameBlob.v[2].v[1]
    /\ Len(pbpRet.df[1]) = 2
    /\ pbpRet.df[1][1].id > pbpRet.df[1][2].id
    /\ Len(pbpRet.df[1][2].playerNames) = 2

\* C10: a run of _fetch_highlights whose normalization completes hands each
\* normalized play to the persistence sink and then puts exactly one summary
\* event, carrying the game identifier and the number of records persisted.
PersistedThenAnnounced ==
    (response.status = 200 /\ response.kind = "ok") =>
        /\ Len(dynamoTable) = Len(response.df[1])
        /\ \A i \in 1..Len(dynamoTable) : dynamoTable[i].id = response.df[1][i].id
        /\ Len(events) = 1
        /\ events[1].game = response.game
        /\ events[1].plays = Len(dynamoTable)

====
